---- MODULE Spec2Model ----
(***************************************************************************)
(* The session / playback engine of PromptDj (src/index.tsx): connection   *)
(* lifecycle, chunk scheduling on the audio clock, the playback state      *)
(* machine and the throttled control pushes.                               *)
(*                                                                         *)
(* The program is single-threaded and event-driven.  One step of the model *)
(* is one run of a handler between two suspension points (an `await` on a  *)
(* transport or audio promise).  A handler is written as an operator that  *)
(* maps a record of the engine's fields to the record after the run; the   *)
(* field k names where the handler suspended (or Done).  Hops through      *)
(* already-resolved promises (await of a non-promise, return of an async   *)
(* function to its awaiting caller) are part of the same step.             *)
(***************************************************************************)
EXTENDS Integers, Sequences, FiniteSets, TLC

\* ------------------------------------------------------------------ bounds
MaxSessions == 2  \* sessions the transport opens in one behaviour
MaxTasks == 2     \* suspended handler invocations at one time
MaxTime == 4      \* last value of the audio clock (seconds)
MaxDecoding == 2  \* audio chunks awaiting decodeAudioData at one time
MaxTimers == 2    \* pending setTimeout callbacks at one time
MaxSends == 1     \* control pushes in flight per channel at one time
MaxDateSteps == 2 \* advances of Date.now()
MaxConnTicks == 0 \* seconds the audio clock runs past the look-ahead (Spec)
MaxPromptId == 3  \* prompts are added while nextPromptId is below it

\* ------------------------------------------------------- program constants
bufferTime == 2
delay == 250

DateStep == delay \div 2         \* Date.now() advances by half a throttle window
MaxHorizon == MaxTime + bufferTime + 1
Durations == {1, 2}
\* a text is a sequence of pieces, so that wrapping it is a concatenation
Texts == {<<"lullaby">>, <<"birthday">>}
WeightOne == 100                 \* weights are in hundredths: 1.0
WeightThreshold == 1             \* 0.01
Weights == {WeightThreshold, WeightThreshold + 1}  \* weights the user drags to

NoSession == 0
SessionIds == 1..MaxSessions
Done == [pc |-> "done", ret |-> "none", s |-> NoSession]
\* a session the transport no longer carries: its flags no longer matter
Closed == [st |-> "closed", closeTried |-> TRUE, streaming |-> FALSE, setup |-> TRUE,
           pushed |-> {}]
NoBuffer == [start |-> -1, duration |-> 0]

maxPrompts == 8

defaultConfig == [density |-> "auto", brightness |-> "auto"]
Configs == {defaultConfig, [density |-> "half", brightness |-> "auto"]}

\* the positions of a slider: 0.5 and 1
SliderValues == {"half", "full"}

\* SettingsController's fields as declared (lines 970-975); firstUpdated tells
\* whether its firstUpdated has run
InitSettings ==
  [autoDensity |-> TRUE, lastDefinedDensity |-> "half",
   autoBrightness |-> TRUE, lastDefinedBrightness |-> "half",
   firstUpdated |-> FALSE]

VARIABLES
  audioContext,     \* "none" (unsupported) | "suspended" | "running"
  currentTime,      \* audioContext.currentTime, seconds
  dateNow,          \* Date.now(), milliseconds
  playbackState,    \* "stopped" | "loading" | "playing" | "paused"
  nextStartTime,
  connectionError,
  session,          \* this.session: NoSession (undefined) or a session id
  filteredPrompts,
  prompts,          \* promptId -> [text, weight]
  nextPromptId,     \* the number the next added prompt is named by
  config,           \* settingsController.config
  settingsController, \* the other fields of the settings controller
  lastCallPrompts,  \* lastCall of the throttle around setSessionPrompts
  lastCallConfig,   \* lastCall of the throttle around updateSettings
  sessions,         \* the transport's sessions, by id
  tasks,            \* suspended handler invocations
  decoding,         \* chunks accepted by onmessage, awaiting decodeAudioData
  timers,           \* pending setTimeout callbacks
  promptSends,      \* setWeightedPrompts pushes in flight
  configSends,      \* updateSettings pushes in flight
  toasts,           \* notices shown by the last step
  calls,            \* session / transport calls made by the last step
  started,          \* buffers handed to source.start by the last step
  ev,               \* the last step: its handler, the session it came from,
                    \* playbackState before it
  prevPlaying,      \* last buffer scheduled in an unbroken `playing` period
  uncaught          \* the last step ended in a rejection nothing handles

vars == <<audioContext, currentTime, dateNow, playbackState, nextStartTime,
          connectionError, session, filteredPrompts, prompts, nextPromptId,
          config, settingsController, lastCallPrompts, lastCallConfig, sessions, tasks, decoding, timers,
          promptSends, configSends, toasts, calls, started, ev, prevPlaying,
          uncaught>>

\* ------------------------------------------------------------ engine record
Cur ==
  [audioContext |-> audioContext, playbackState |-> playbackState,
   nextStartTime |-> nextStartTime, connectionError |-> connectionError,
   session |-> session, filteredPrompts |-> filteredPrompts,
   prompts |-> prompts, nextPromptId |-> nextPromptId, config |-> config,
   settingsController |-> settingsController,
   lastCallPrompts |-> lastCallPrompts, lastCallConfig |-> lastCallConfig,
   sessions |-> sessions, decoding |-> decoding, timers |-> timers,
   promptSends |-> promptSends, configSends |-> configSends,
   toasts |-> <<>>, calls |-> <<>>, started |-> <<>>,
   uncaught |-> FALSE, k |-> Done]

Toast(e, msg) == [e EXCEPT !.toasts = Append(@, msg)]

Call(e, op, s) == [e EXCEPT !.calls = Append(@, [op |-> op, s |-> s])]

RemoveAt(seq, i) == SubSeq(seq, 1, i - 1) \o SubSeq(seq, i + 1, Len(seq))

Suspend(e, ret, pc, s) == [e EXCEPT !.k = [pc |-> pc, ret |-> ret, s |-> s]]

\* ------------------------------------------------------------------ throttle
\* a wrapper that lets every call through
throttleAlways(lastCall) == dateNow - lastCall >= 0

throttle(lastCall) == dateNow - lastCall >= delay

\* --------------------------------------------------------------- pauseAudio
\* pauseAudio with the horizon left as it was
pauseAudioKeepsHorizon(e) ==
  LET e1 == IF e.session # NoSession /\ ~e.connectionError
            THEN Call(e, "pause", e.session) ELSE e
  IN [e1 EXCEPT !.playbackState = "paused"]

pauseAudio(e) ==
  LET e1 == IF e.session # NoSession /\ ~e.connectionError
            THEN Call(e, "pause", e.session) ELSE e
  IN [e1 EXCEPT !.playbackState = "paused", !.nextStartTime = 0]

stopAudio(e) ==
  LET e1 == IF e.session # NoSession /\ ~e.connectionError
            THEN Call(e, "stop", e.session) ELSE e
  IN [e1 EXCEPT !.playbackState = "stopped", !.nextStartTime = 0]

\* ---------------------------------------------------------- setSessionPrompts
Wrap(text) ==
  <<"Music for a 5-year-old: ">> \o text \o <<". Make it simple, happy, and playful.">>

\* the filter with prompts at the threshold let through
promptsToSendAtThreshold(e) ==
  {[promptId |-> id, text |-> Wrap(e.prompts[id].text), weight |-> e.prompts[id].weight] :
     id \in {i \in DOMAIN e.prompts :
               e.prompts[i].text \notin e.filteredPrompts
               /\ e.prompts[i].weight >= WeightThreshold}}

promptsToSend(e) ==
  {[promptId |-> id, text |-> Wrap(e.prompts[id].text), weight |-> e.prompts[id].weight] :
     id \in {i \in DOMAIN e.prompts :
               e.prompts[i].text \notin e.filteredPrompts
               /\ e.prompts[i].weight > WeightThreshold}}

setSessionPromptsBody(e) ==
  IF e.session = NoSession \/ e.connectionError THEN e
  ELSE [e EXCEPT !.calls = Append(@, [op |-> "setWeightedPrompts", s |-> e.session,
                                      arg |-> promptsToSend(e)]),
                 !.sessions[e.session].pushed = @ \cup {p.text : p \in promptsToSend(e)},
                 !.promptSends = @ + 1]

setSessionPrompts(e) ==
  IF throttle(e.lastCallPrompts)
  THEN [setSessionPromptsBody(e) EXCEPT !.lastCallPrompts = dateNow]
  ELSE e

\* ------------------------------------------------------------- updateSettings
updateSettingsBody(e, detail) ==
  IF e.session = NoSession \/ e.connectionError THEN e
  ELSE [e EXCEPT !.calls = Append(@, [op |-> "setMusicGenerationConfig", s |-> e.session,
                                      arg |-> detail]),
                 !.configSends = @ + 1]

\* the throttled updateSettings with the wrapper's clock left alone
updateSettingsKeepsClock(e, detail) ==
  IF throttle(e.lastCallConfig) THEN updateSettingsBody(e, detail) ELSE e

updateSettings(e, detail) ==
  IF throttle(e.lastCallConfig)
  THEN [updateSettingsBody(e, detail) EXCEPT !.lastCallConfig = dateNow]
  ELSE e

\* ----------------------------------------------------------- connectToSession
RECURSIVE connectToSession(_, _)

\* session.play(): the server starts streaming; the call throws when the
\* connection of that session is no longer open.
playThrows(e) == e.sessions[e.session].st # "open"

play(e) ==
  [Call(e, "play", e.session) EXCEPT !.sessions[e.session].streaming = TRUE]

\* loadAudio showing the spinner without asking the session to play
loadAudioNoPlay(e) ==
  IF e.audioContext # "running"
  THEN [Toast(e, "Audio system not ready to play.") EXCEPT !.playbackState = "paused"]
  ELSE IF e.session = NoSession \/ e.connectionError
  THEN connectToSession(Toast(e, "Trying to reconnect the music magic..."), "la")
  ELSE [e EXCEPT !.playbackState = "loading"]

loadAudio(e) ==
  IF e.audioContext # "running"
  THEN [Toast(e, "Audio system not ready to play.") EXCEPT !.playbackState = "paused"]
  ELSE IF e.session = NoSession \/ e.connectionError
  THEN connectToSession(Toast(e, "Trying to reconnect the music magic..."), "la")
  ELSE IF playThrows(e)
  THEN [Toast(Call(e, "play", e.session), "Couldn't play") EXCEPT !.playbackState = "paused"]
  ELSE [play(e) EXCEPT !.playbackState = "loading"]

\* ------------------------------------------------------ SettingsController
\* resetToDefaults, with the settings-changed event it dispatches handled by
\* updateSettings
resetToDefaults(e) ==
  LET e1 == [e EXCEPT !.config = defaultConfig,
                      !.settingsController.autoDensity = TRUE,
                      !.settingsController.lastDefinedDensity = "half",
                      !.settingsController.autoBrightness = TRUE,
                      !.settingsController.lastDefinedBrightness = "half"]
  IN updateSettings(e1, e1.config)

\* un-checking automatic always pins the field to 0.5
handleInputChangePinsHalf(e, key, value) ==
  LET sc == e.settingsController
      e1 == CASE key = "auto-density" ->
                   [e EXCEPT !.settingsController.autoDensity = value,
                             !.config.density = IF value THEN "auto" ELSE "half"]
               [] key = "auto-brightness" ->
                   [e EXCEPT !.settingsController.autoBrightness = value,
                             !.config.brightness = IF value THEN "auto" ELSE "half"]
               [] key = "density" ->
                   [e EXCEPT !.config.density = value,
                             !.settingsController.lastDefinedDensity = value]
               [] key = "brightness" ->
                   [e EXCEPT !.config.brightness = value,
                             !.settingsController.lastDefinedBrightness = value]
               [] OTHER -> e
  IN updateSettings(e1, e1.config)

\* handleInputChange for the control `key` (a checkbox gives a boolean, a
\* slider its position; the other controls change fields that are not
\* modelled), with the settings-changed event handled by updateSettings
handleInputChange(e, key, value) ==
  LET sc == e.settingsController
      e1 == CASE key = "auto-density" ->
                   [e EXCEPT !.settingsController.autoDensity = value,
                             !.config.density = IF value THEN "auto"
                                                ELSE sc.lastDefinedDensity]
               [] key = "auto-brightness" ->
                   [e EXCEPT !.settingsController.autoBrightness = value,
                             !.config.brightness = IF value THEN "auto"
                                                   ELSE sc.lastDefinedBrightness]
               [] key = "density" ->
                   [e EXCEPT !.config.density = value,
                             !.settingsController.lastDefinedDensity = value]
               [] key = "brightness" ->
                   [e EXCEPT !.config.brightness = value,
                             !.settingsController.lastDefinedBrightness = value]
               [] OTHER -> e
  IN updateSettings(e1, e1.config)

\* SettingsController.firstUpdated (lines 1045-1057)
settingsFirstUpdated(e) ==
  LET sc == e.settingsController
      e1 == [e EXCEPT !.config.density = IF sc.autoDensity THEN "auto"
                                         ELSE sc.lastDefinedDensity,
                      !.config.brightness = IF sc.autoBrightness THEN "auto"
                                            ELSE sc.lastDefinedBrightness,
                      !.settingsController.firstUpdated = TRUE]
  IN updateSettings(e1, e1.config)

\* handleReset after the awaited resetContext (lines 1841-1853)
resetFinish(e) ==
  LET e2 == resetToDefaults(e)
  IN [e2 EXCEPT !.filteredPrompts = {},
                !.timers = Append(@, [kind |-> "fresh", due |-> 0, stale |-> FALSE])]

\* handleReset from line 1830 on, up to the awaited resetContext
resetAfterConnect(e) ==
  LET e1 == pauseAudio(e)
  IN IF e1.session # NoSession
     THEN Suspend(Call(e1, "resetContext", e1.session), "rs", "resetContext", NoSession)
     ELSE resetFinish(e1)

\* what the caller does once connectToSession has returned
Return(e, ret) ==
  CASE ret = "fu" ->
         LET e1 == setSessionPrompts(e)
         IN IF e1.session # NoSession
            THEN Suspend([e1 EXCEPT !.calls = Append(@, [op |-> "setMusicGenerationConfig",
                                                         s |-> e1.session, arg |-> e1.config])],
                         "fu", "initialConfig", NoSession)
            ELSE e1
    [] ret = "pp" -> IF e.connectionError THEN e ELSE loadAudio(e)
    [] ret = "rs" -> IF e.connectionError THEN e ELSE resetAfterConnect(e)
    [] ret = "la" ->
         IF ~e.connectionError /\ e.session # NoSession
         THEN IF playThrows(e)
              THEN [Call(e, "play", e.session) EXCEPT !.uncaught = TRUE]
              ELSE [play(e) EXCEPT !.playbackState = "loading"]
         ELSE e
    [] ret = "twice" -> connectToSession(e, "once")
    [] ret = "once" -> e

\* lines 1460-1462: the connect is issued
connectStage(e, ret) ==
  Suspend([Call(e, "connect", NoSession) EXCEPT !.playbackState = "loading"],
          ret, "connect", NoSession)

\* lines 1450-1457: best-effort close of the existing session
closeStage(e, ret) ==
  IF e.session # NoSession
  THEN Suspend([Call(e, "close", e.session) EXCEPT !.sessions[e.session].closeTried = TRUE],
               ret, "close", e.session)
  ELSE connectStage(e, ret)

connectToSession(e, ret) ==
  IF e.audioContext = "none"
  THEN Return([Toast(e, "Cannot connect: Audio system not ready.")
                 EXCEPT !.playbackState = "stopped"], ret)
  ELSE IF e.session # NoSession /\ ~e.connectionError
  THEN Suspend([e EXCEPT !.calls = Append(@, [op |-> "setMusicGenerationConfig",
                                              s |-> e.session, arg |-> "empty"])],
               ret, "probe", NoSession)
  ELSE closeStage(e, ret)

\* lines 1547-1552
connectFailed(e) ==
  [Toast(e, "Couldn't start the music magic. Is your internet okay?")
     EXCEPT !.connectionError = TRUE, !.playbackState = "stopped"]

\* a connect that starts the new session with an empty FilteredSet
connectedForgets(e, ret, n) ==
  LET e1 == [e EXCEPT !.session = n, !.connectionError = FALSE,
                      !.sessions[n].st = "open", !.filteredPrompts = {}]
      e2 == setSessionPrompts(e1)
  IN Suspend([e2 EXCEPT !.calls = Append(@, [op |-> "setMusicGenerationConfig",
                                             s |-> e2.session, arg |-> e2.config])],
             ret, "config", NoSession)

\* lines 1539-1545, after the awaited connect has produced session n
connected(e, ret, n) ==
  LET e1 == [e EXCEPT !.session = n, !.connectionError = FALSE,
                      !.sessions[n].st = "open"]
      e2 == setSessionPrompts(e1)
  IN Suspend([e2 EXCEPT !.calls = Append(@, [op |-> "setMusicGenerationConfig",
                                             s |-> e2.session, arg |-> e2.config])],
             ret, "config", NoSession)

\* handlePlayPause with a press in `loading` taken as a stop
playPauseBodyStops(e) ==
  IF e.playbackState = "playing" THEN pauseAudio(e)
  ELSE IF e.playbackState \in {"paused", "stopped"}
  THEN IF e.connectionError \/ e.session = NoSession
       THEN connectToSession(e, "pp")
       ELSE loadAudio(e)
  ELSE stopAudio(e)

\* lines 1648-1659 of handlePlayPause, once the audio context is there
playPauseBody(e) ==
  IF e.playbackState = "playing" THEN pauseAudio(e)
  ELSE IF e.playbackState \in {"paused", "stopped"}
  THEN IF e.connectionError \/ e.session = NoSession
       THEN connectToSession(e, "pp")
       ELSE loadAudio(e)
  ELSE pauseAudio(e)

\* lines 1825-1839 of handleReset
resetBody(e) ==
  IF e.connectionError \/ e.session = NoSession
  THEN connectToSession(e, "rs")
  ELSE resetAfterConnect(e)

\* handlePlayPause taking the button for granted: it connects without an
\* audio context
handlePlayPauseUnguarded(e) ==
  IF e.audioContext = "none" THEN connectStage(e, "pp")
  ELSE IF e.audioContext = "suspended"
  THEN Suspend(e, "pp", "resume", NoSession)
  ELSE playPauseBody(e)

\* handlePlayPause up to its first await (lines 1638-1646)
handlePlayPause(e) ==
  IF e.audioContext = "none"
  THEN Toast(e, "Cannot play: Audio system not ready.")
  ELSE IF e.audioContext = "suspended"
  THEN Suspend(e, "pp", "resume", NoSession)
  ELSE playPauseBody(e)

\* handleReset up to its first await (lines 1816-1824)
handleReset(e) ==
  IF e.audioContext = "none"
  THEN Toast(e, "Cannot reset: Audio system not ready.")
  ELSE IF e.audioContext = "suspended"
  THEN Suspend(e, "rs", "resume", NoSession)
  ELSE resetBody(e)

\* ---------------------------------------------------------------- the prompts
\* `prompt-${n}`
PromptId(n) == "prompt-" \o ToString(n)

NewPromptText == <<"New Song Idea!">>

\* handleAddPrompt with the push it leaves out
handleAddPromptPushes(e) ==
  IF Cardinality(DOMAIN e.prompts) >= maxPrompts
  THEN Toast(e, "That's a lot of song ideas! Maybe remove one first?")
  ELSE LET newPromptId == PromptId(e.nextPromptId)
       IN setSessionPrompts(
            [e EXCEPT !.nextPromptId = @ + 1,
                      !.prompts = [id \in DOMAIN e.prompts \cup {newPromptId} |->
                                     IF id = newPromptId
                                     THEN [text |-> NewPromptText, weight |-> 0]
                                     ELSE e.prompts[id]]])

handleAddPrompt(e) ==
  IF Cardinality(DOMAIN e.prompts) >= maxPrompts
  THEN Toast(e, "That's a lot of song ideas! Maybe remove one first?")
  ELSE LET newPromptId == PromptId(e.nextPromptId)
       IN [e EXCEPT !.nextPromptId = @ + 1,
                    !.prompts = [id \in DOMAIN e.prompts \cup {newPromptId} |->
                                   IF id = newPromptId
                                   THEN [text |-> NewPromptText, weight |-> 0]
                                   ELSE e.prompts[id]]]

\* ------------------------------------------------------------- the callbacks
NoText == <<>>

\* LiveMusicServerMessage: {setupComplete?, filteredPrompt?, serverContent?.audioChunks}
SetupMsg == [setupComplete |-> TRUE, filteredPrompt |-> NoText, audioChunks |-> <<>>]
FilteredMsg(text) == [setupComplete |-> FALSE, filteredPrompt |-> text, audioChunks |-> <<>>]
AudioMsg(chunks) == [setupComplete |-> FALSE, filteredPrompt |-> NoText, audioChunks |-> chunks]

\* decodeAudioData(decode(audioChunks[0].data), ...): the buffer's duration
decodeAudioData(chunks) == Head(chunks)

\* onmessage decoding every chunk of the message
onmessageAllChunks(e, s, m) ==
  LET e1 == IF m.setupComplete
            THEN [e EXCEPT !.connectionError = FALSE, !.sessions[s].setup = TRUE]
            ELSE e
      e2 == IF m.filteredPrompt # NoText
            THEN Toast([e1 EXCEPT !.filteredPrompts = @ \cup {m.filteredPrompt}],
                       "idea is a bit tricky!")
            ELSE e1
  IN IF m.audioChunks # <<>>
     THEN IF e2.playbackState \in {"paused", "stopped"} THEN e2
          ELSE IF e2.audioContext = "none" THEN pauseAudio(e2)
          ELSE [e2 EXCEPT !.decoding =
                  @ \o [i \in 1..Len(m.audioChunks) |->
                          [sess |-> s, duration |-> m.audioChunks[i]]]]
     ELSE e2

\* onmessage pausing playback when a prompt is reported filtered
onmessageInterrupts(e, s, m) ==
  LET e1 == IF m.setupComplete
            THEN [e EXCEPT !.connectionError = FALSE, !.sessions[s].setup = TRUE]
            ELSE e
      e2 == IF m.filteredPrompt # NoText
            THEN pauseAudio(Toast([e1 EXCEPT !.filteredPrompts = @ \cup {m.filteredPrompt}],
                                  "idea is a bit tricky!"))
            ELSE e1
  IN IF m.audioChunks # <<>>
     THEN IF e2.playbackState \in {"paused", "stopped"} THEN e2
          ELSE IF e2.audioContext = "none" THEN pauseAudio(e2)
          ELSE [e2 EXCEPT !.decoding =
                  Append(@, [sess |-> s, duration |-> decodeAudioData(m.audioChunks)])]
     ELSE e2

onmessage(e, s, m) ==
  LET e1 == IF m.setupComplete
            THEN [e EXCEPT !.connectionError = FALSE, !.sessions[s].setup = TRUE]
            ELSE e
      e2 == IF m.filteredPrompt # NoText
            THEN Toast([e1 EXCEPT !.filteredPrompts = @ \cup {m.filteredPrompt}],
                       "idea is a bit tricky!")
            ELSE e1
  IN IF m.audioChunks # <<>>
     THEN IF e2.playbackState \in {"paused", "stopped"} THEN e2
          ELSE IF e2.audioContext = "none" THEN pauseAudio(e2)
          ELSE [e2 EXCEPT !.decoding =
                  Append(@, [sess |-> s, duration |-> decodeAudioData(m.audioChunks)])]
     ELSE e2

\* the scheduling step arming a look-ahead timer for every buffer
scheduleArmsAlways(e, d) ==
  LET now == currentTime
      first == e.nextStartTime = 0
      e0 == [e EXCEPT !.timers = Append(@, [kind |-> "promote",
                                            due |-> now + bufferTime,
                                            stale |-> FALSE])]
      e1 == IF first THEN [e0 EXCEPT !.nextStartTime = now + bufferTime] ELSE e0
      underrun == e1.nextStartTime < now
      e2 == IF underrun
            THEN [e1 EXCEPT !.playbackState = "loading",
                            !.nextStartTime = now + bufferTime]
            ELSE e1
  IN [e2 EXCEPT !.started = Append(@, [start |-> e2.nextStartTime,
                                       duration |-> d.duration,
                                       sess |-> d.sess,
                                       now |-> now,
                                       T |-> e.nextStartTime,
                                       first |-> first,
                                       underrun |-> underrun,
                                       prev |-> prevPlaying,
                                       state |-> e2.playbackState]),
                 !.nextStartTime = @ + d.duration]

\* the scheduling step with the horizon not advanced by the buffer's duration
scheduleNoAdvance(e, d) ==
  LET now == currentTime
      first == e.nextStartTime = 0
      e1 == IF first
            THEN [e EXCEPT !.nextStartTime = now + bufferTime,
                           !.timers = Append(@, [kind |-> "promote",
                                                 due |-> now + bufferTime,
                                                 stale |-> FALSE])]
            ELSE e
      underrun == e1.nextStartTime < now
      e2 == IF underrun
            THEN [e1 EXCEPT !.playbackState = "loading",
                            !.nextStartTime = now + bufferTime]
            ELSE e1
  IN [e2 EXCEPT !.started = Append(@, [start |-> e2.nextStartTime,
                                       duration |-> d.duration,
                                       sess |-> d.sess,
                                       now |-> now,
                                       T |-> e.nextStartTime,
                                       first |-> first,
                                       underrun |-> underrun,
                                       prev |-> prevPlaying,
                                       state |-> e2.playbackState])]

\* the scheduling step with an under-run that starts the buffer at the stale
\* horizon
scheduleNoRearm(e, d) ==
  LET now == currentTime
      first == e.nextStartTime = 0
      e1 == IF first
            THEN [e EXCEPT !.nextStartTime = now + bufferTime,
                           !.timers = Append(@, [kind |-> "promote",
                                                 due |-> now + bufferTime,
                                                 stale |-> FALSE])]
            ELSE e
      underrun == e1.nextStartTime < now
      e2 == IF underrun
            THEN [e1 EXCEPT !.playbackState = "loading"]
            ELSE e1
  IN [e2 EXCEPT !.started = Append(@, [start |-> e2.nextStartTime,
                                       duration |-> d.duration,
                                       sess |-> d.sess,
                                       now |-> now,
                                       T |-> e.nextStartTime,
                                       first |-> first,
                                       underrun |-> underrun,
                                       prev |-> prevPlaying,
                                       state |-> e2.playbackState]),
                 !.nextStartTime = @ + d.duration]

\* lines 1500-1518: the continuation of onmessage after the awaited decode
schedule(e, d) ==
  LET now == currentTime
      first == e.nextStartTime = 0
      e1 == IF first
            THEN [e EXCEPT !.nextStartTime = now + bufferTime,
                           !.timers = Append(@, [kind |-> "promote",
                                                 due |-> now + bufferTime,
                                                 stale |-> FALSE])]
            ELSE e
      underrun == e1.nextStartTime < now
      e2 == IF underrun
            THEN [e1 EXCEPT !.playbackState = "loading",
                            !.nextStartTime = now + bufferTime]
            ELSE e1
  IN [e2 EXCEPT !.started = Append(@, [start |-> e2.nextStartTime,
                                       duration |-> d.duration,
                                       sess |-> d.sess,
                                       now |-> now,
                                       T |-> e.nextStartTime,
                                       first |-> first,
                                       underrun |-> underrun,
                                       prev |-> prevPlaying,
                                       state |-> e2.playbackState]),
                 !.nextStartTime = @ + d.duration]

onerror(e) ==
  LET e1 == pauseAudio([e EXCEPT !.connectionError = TRUE])
  IN Toast([e1 EXCEPT !.playbackState = "paused"],
           "Oh no! Lost connection to the music magic. Try playing again.")

\* onclose treating every closure as a lost connection
oncloseAlwaysPauses(e, wasClean) ==
  LET e1 == pauseAudio([e EXCEPT !.connectionError = TRUE])
  IN Toast([e1 EXCEPT !.playbackState = "paused"],
           "Music magic connection closed. Please try playing again.")

onclose(e, wasClean) ==
  IF ~wasClean
  THEN LET e1 == pauseAudio([e EXCEPT !.connectionError = TRUE])
       IN Toast([e1 EXCEPT !.playbackState = "paused"],
                "Music magic connection closed. Please try playing again.")
  ELSE e

\* the setTimeout callbacks: lines 1506-1508 and 1848-1853
timerCallback(e, t) ==
  IF t.kind = "promote"
  THEN IF e.playbackState = "loading" THEN [e EXCEPT !.playbackState = "playing"] ELSE e
  ELSE Toast(e, "Music all fresh and new!")

\* ------------------------------------------------------------------ the steps
InBounds(e) ==
  /\ Len(e.timers) <= MaxTimers
  /\ Len(e.decoding) <= MaxDecoding
  /\ e.promptSends <= MaxSends
  /\ e.configSends <= MaxSends

\* a timer is stale once PlaybackState has entered paused or stopped after
\* it was armed
Outdated(e) ==
  IF e.playbackState \in {"paused", "stopped"} /\ playbackState \notin {"paused", "stopped"}
  THEN [i \in DOMAIN e.timers |-> [e.timers[i] EXCEPT !.stale = TRUE]]
  ELSE e.timers

\* one step of the engine: the fields as the handler leaves them, and the
\* record of the step (what ran, from which PlaybackState, for which session
\* or timeline, and the PlaybackState at the user's latest press of play/pause)
CommitAs(e, name, s, current, newTasks) ==
  /\ InBounds(e)
  /\ Len(newTasks) <= MaxTasks
  /\ audioContext' = e.audioContext
  /\ playbackState' = e.playbackState
  /\ nextStartTime' = e.nextStartTime
  /\ connectionError' = e.connectionError
  /\ session' = e.session
  /\ filteredPrompts' = e.filteredPrompts
  /\ prompts' = e.prompts
  /\ nextPromptId' = e.nextPromptId
  /\ config' = e.config
  /\ settingsController' = e.settingsController
  /\ lastCallPrompts' = e.lastCallPrompts
  /\ lastCallConfig' = e.lastCallConfig
  /\ sessions' = e.sessions
  /\ decoding' = e.decoding
  /\ timers' = Outdated(e)
  /\ promptSends' = e.promptSends
  /\ configSends' = e.configSends
  /\ toasts' = e.toasts
  /\ calls' = e.calls
  /\ started' = e.started
  /\ uncaught' = e.uncaught
  /\ tasks' = newTasks
  /\ ev' = [name |-> name, from |-> playbackState, s |-> s, current |-> current,
            pressed |-> IF name = "handlePlayPause" THEN playbackState
                        ELSE IF name \in {"firstUpdated", "handleReset"} THEN "none"
                        ELSE ev.pressed]
  /\ prevPlaying' = IF e.playbackState # "playing" THEN NoBuffer
                    ELSE IF e.started # <<>>
                    THEN [start |-> e.started[Len(e.started)].start,
                          duration |-> e.started[Len(e.started)].duration]
                    ELSE prevPlaying
  /\ UNCHANGED <<currentTime, dateNow>>

Commit(e, name, s, newTasks) ==
  CommitAs(e, name, s, s \in {NoSession, session}, newTasks)

\* a new handler invocation, and the step of the suspended invocation i
Spawn(e) == IF e.k = Done THEN tasks ELSE Append(tasks, e.k)
Resume(e, i) == IF e.k = Done THEN RemoveAt(tasks, i) ELSE [tasks EXCEPT ![i] = e.k]

Rendered == \A i \in 1..Len(tasks) : tasks[i].pc # "start"

At(i, pc) == i \in 1..Len(tasks) /\ tasks[i].pc = pc

FirstUpdated ==
  /\ At(1, "start")
  /\ IF audioContext = "none"
     THEN Commit(Cur, "firstUpdated", NoSession, RemoveAt(tasks, 1))
     ELSE LET e == connectToSession(Cur, "fu")
          IN Commit(e, "firstUpdated", NoSession, Resume(e, 1))

HandlePlayPause ==
  /\ Rendered
  /\ LET e == handlePlayPause(Cur)
     IN Commit(e, "handlePlayPause", NoSession, Spawn(e))

HandleReset ==
  /\ Rendered
  /\ LET e == handleReset(Cur)
     IN Commit(e, "handleReset", NoSession, Spawn(e))

\* connectToSession awaited twice in a row
EnsureConnectedTwice ==
  /\ Rendered
  /\ LET e == connectToSession(Cur, "twice")
     IN Commit(e, "ensureConnected", NoSession, Spawn(e))

\* audioContext.resume() resolves
ResumeDone(i) ==
  /\ At(i, "resume")
  /\ LET e0 == [Cur EXCEPT !.audioContext = "running"]
         e == IF tasks[i].ret = "pp" THEN playPauseBody(e0) ELSE resetBody(e0)
     IN Commit(e, "resume", NoSession, Resume(e, i))

\* the liveness probe of line 1442 settles
ProbeDone(i, ok) ==
  /\ At(i, "probe")
  /\ LET e == IF ok THEN Return(Cur, tasks[i].ret) ELSE closeStage(Cur, tasks[i].ret)
     IN Commit(e, IF ok THEN "probe" ELSE "probeFailed", NoSession, Resume(e, i))

\* a close whose failure ends the reconnect
CloseDoneEscalates(i, ok) ==
  /\ At(i, "close")
  /\ LET e == IF ok THEN connectStage([Cur EXCEPT !.sessions[tasks[i].s] = Closed],
                                      tasks[i].ret)
              ELSE Return(connectFailed(Cur), tasks[i].ret)
     IN Commit(e, "close", NoSession, Resume(e, i))

\* session.close() of line 1453 settles
CloseDone(i, ok) ==
  /\ At(i, "close")
  /\ LET e0 == IF ok THEN [Cur EXCEPT !.sessions[tasks[i].s] = Closed] ELSE Cur
         e == connectStage(e0, tasks[i].ret)
     IN Commit(e, "close", NoSession, Resume(e, i))

Unborn == {n \in SessionIds : sessions[n].st = "unborn"}

\* ai.live.music.connect of line 1462 settles
ConnectDone(i, ok) ==
  /\ At(i, "connect")
  /\ ok => Unborn # {}
  /\ LET n == CHOOSE m \in Unborn : \A o \in Unborn : m <= o
         e == IF ok THEN connected(Cur, tasks[i].ret, n)
              ELSE Return(connectFailed(Cur), tasks[i].ret)
     IN Commit(e, IF ok THEN "connect" ELSE "connectFailed", NoSession, Resume(e, i))

\* the config push of line 1544 settles
ConfigDone(i, ok) ==
  /\ At(i, "config")
  /\ LET e == IF ok THEN Return(Cur, tasks[i].ret)
              ELSE Return(connectFailed(Cur), tasks[i].ret)
     IN Commit(e, IF ok THEN "config" ELSE "configFailed", NoSession, Resume(e, i))

\* the config push of firstUpdated (lines 1423, 1427) settles
InitialConfigDone(i, ok) ==
  /\ At(i, "initialConfig")
  /\ LET e == IF ok THEN Cur ELSE [Cur EXCEPT !.uncaught = TRUE]
     IN Commit(e, "initialConfig", NoSession, Resume(e, i))

\* session.resetContext() of line 1834 settles
ResetContextDone(i, ok) ==
  /\ At(i, "resetContext")
  /\ LET e == resetFinish(IF ok THEN Cur
                          ELSE Toast(Cur, "Could not reset music context"))
     IN Commit(e, "resetContext", NoSession, Resume(e, i))

\* a setWeightedPrompts push settles (lines 1570-1577)
PromptSendDone(ok) ==
  /\ promptSends > 0
  /\ LET e0 == [Cur EXCEPT !.promptSends = @ - 1]
         e == IF ok THEN e0
              ELSE pauseAudio(Toast(e0, "Oops! Had trouble with song ideas"))
     IN Commit(e, IF ok THEN "promptSend" ELSE "promptSendFailed", NoSession, tasks)

\* an updateSettings push settles (lines 1805-1811)
ConfigSendDone(ok) ==
  /\ configSends > 0
  /\ LET e0 == [Cur EXCEPT !.configSends = @ - 1]
         e == IF ok THEN e0 ELSE Toast(e0, "Setting change failed")
     IN Commit(e, IF ok THEN "configSend" ELSE "configSendFailed", NoSession, tasks)

Open(s) == s \in SessionIds /\ sessions[s].st = "open"

\* the texts a filtered-prompt signal of session s may report: a text the
\* session was sent, or the text of one of the user's ideas
Reportable(s) == sessions[s].pushed \cup {prompts[id].text : id \in DOMAIN prompts}

\* the prompts that are never sent
Silent == {id \in DOMAIN prompts : prompts[id].weight = 0}

\* the user edits the text or drags the weight of a prompt
HandlePromptChanged(id, text, weight) ==
  /\ Rendered
  /\ id \in DOMAIN prompts
  /\ LET e0 == [Cur EXCEPT !.prompts[id] = [text |-> text, weight |-> weight]]
     IN Commit(setSessionPrompts(e0), "promptChanged", NoSession, tasks)

\* the user presses the add button
HandleAddPrompt ==
  /\ Rendered
  /\ nextPromptId < MaxPromptId
  /\ Commit(handleAddPrompt(Cur), "promptAdded", NoSession, tasks)

\* the user removes a prompt
HandlePromptRemoved(id) ==
  /\ Rendered
  /\ id \in DOMAIN prompts
  /\ LET e0 == [Cur EXCEPT !.prompts = [i \in DOMAIN prompts \ {id} |-> prompts[i]]]
     IN Commit(setSessionPrompts(e0), "promptRemoved", NoSession, tasks)

\* the user operates a control of the settings controller; the sliders of
\* density and brightness are disabled while their automatic box is checked
HandleInputChange(key, value) ==
  /\ Rendered
  /\ key = "density" => ~settingsController.autoDensity
  /\ key = "brightness" => ~settingsController.autoBrightness
  /\ Commit(handleInputChange(Cur, key, value), "settingsChanged", NoSession, tasks)

\* the user changes a setting so that the controller dispatches `detail`
SettingsChanged(detail) ==
  \E key \in {"auto-density", "auto-brightness", "density", "brightness", "temperature"} :
    \E value \in IF key \in {"auto-density", "auto-brightness"} THEN BOOLEAN
                  ELSE SliderValues :
      /\ handleInputChange(Cur, key, value).config = detail
      /\ HandleInputChange(key, value)

\* the settings controller is rendered for the first time
SettingsFirstUpdated ==
  /\ ~settingsController.firstUpdated
  /\ Commit(settingsFirstUpdated(Cur), "settingsFirstUpdated", NoSession, tasks)

OnMessage(s, m) ==
  /\ Open(s)
  /\ m.setupComplete => ~sessions[s].setup
  /\ m.audioChunks # <<>> => sessions[s].streaming /\ nextStartTime <= MaxHorizon
  /\ m.filteredPrompt # NoText => m.filteredPrompt \in Reportable(s)
  /\ Commit(onmessage(Cur, s, m), "onmessage", s, tasks)

\* decoding a chunk is a suspension point: the awaited decodeAudioData of
\* chunk i has not settled yet
DecodePending(i) == i \in 1..Len(decoding)

\* the awaited decodeAudioData of line 1494 settles
DecodeDone(i) ==
  /\ DecodePending(i)
  /\ Commit(schedule([Cur EXCEPT !.decoding = RemoveAt(@, i)], decoding[i]),
            "decode", decoding[i].sess, tasks)

\* a message whose chunk is decoded before any other callback runs
OnMessageDecoded(s, m) ==
  /\ Open(s)
  /\ m.setupComplete => ~sessions[s].setup
  /\ m.audioChunks # <<>> => sessions[s].streaming /\ nextStartTime <= MaxHorizon
  /\ decoding = <<>>
  /\ LET e1 == onmessage(Cur, s, m)
         e == IF e1.decoding # <<>>
              THEN schedule([e1 EXCEPT !.decoding = <<>>], Head(e1.decoding))
              ELSE e1
     IN Commit(e, "onmessage", s, tasks)

OnError(s) ==
  /\ Open(s)
  /\ Commit(onerror(Cur), "onerror", s, tasks)

OnClose(s, wasClean) ==
  /\ Open(s)
  /\ Commit(onclose([Cur EXCEPT !.sessions[s] = Closed], wasClean),
            IF wasClean THEN "oncloseClean" ELSE "onclose", s, tasks)

TimerFire(i) ==
  /\ i \in 1..Len(timers)
  /\ currentTime >= timers[i].due
  /\ CommitAs(timerCallback([Cur EXCEPT !.timers = RemoveAt(@, i)], timers[i]),
              "timer", NoSession, ~timers[i].stale, tasks)

\* the clocks leave the engine, and the record of its last step, alone
Quiet ==
  UNCHANGED <<audioContext, playbackState, nextStartTime, connectionError,
              session, filteredPrompts, prompts, nextPromptId, config,
              settingsController, lastCallPrompts, lastCallConfig, sessions, tasks, decoding, timers, promptSends,
              configSends, toasts, calls, started, ev, prevPlaying, uncaught>>

\* the audio clock advances while the context runs
Tick(max) ==
  /\ audioContext = "running"
  /\ currentTime < max
  /\ currentTime' = currentTime + 1
  /\ UNCHANGED dateNow
  /\ Quiet

AdvanceDate ==
  /\ dateNow < delay + MaxDateSteps * DateStep
  /\ dateNow' = dateNow + DateStep
  /\ UNCHANGED currentTime
  /\ Quiet

\* ------------------------------------------------------------ specification
InitPrompts ==
  [id \in {"prompt-0", "prompt-1"} |->
     IF id = "prompt-0" THEN [text |-> <<"lullaby">>, weight |-> WeightOne]
     ELSE [text |-> <<"birthday">>, weight |-> 0]]

Init ==
  /\ audioContext \in {"none", "suspended", "running"}
  /\ currentTime = 0
  /\ dateNow = delay
  /\ playbackState = "stopped"
  /\ nextStartTime = 0
  /\ connectionError = TRUE
  /\ session = NoSession
  /\ filteredPrompts = {}
  /\ prompts = InitPrompts
  /\ nextPromptId = Cardinality(DOMAIN InitPrompts)
  /\ config = defaultConfig
  /\ settingsController = InitSettings
  /\ lastCallPrompts = 0
  /\ lastCallConfig = 0
  /\ sessions = [n \in SessionIds |->
                   [st |-> "unborn", closeTried |-> FALSE, streaming |-> FALSE,
                    setup |-> FALSE, pushed |-> {}]]
  /\ tasks = <<[pc |-> "start", ret |-> "fu", s |-> NoSession]>>
  /\ decoding = <<>>
  /\ timers = <<>>
  /\ promptSends = 0
  /\ configSends = 0
  /\ toasts = <<>>
  /\ calls = <<>>
  /\ started = <<>>
  /\ ev = [name |-> "init", from |-> "stopped", s |-> NoSession, current |-> TRUE,
           pressed |-> "none"]
  /\ prevPlaying = NoBuffer
  /\ uncaught = FALSE

\* the page is loaded again: gen() builds a new element from the prompts the
\* last prompts-changed event stored (lines 1386-1391, 1902-1912)
Reload ==
  /\ audioContext' \in IF audioContext = "none" THEN {"none"}
                       ELSE {"suspended", "running"}
  /\ prompts' = prompts
  /\ nextPromptId' = Cardinality(DOMAIN prompts)
  /\ currentTime' = 0
  /\ playbackState' = "stopped"
  /\ nextStartTime' = 0
  /\ connectionError' = TRUE
  /\ session' = NoSession
  /\ filteredPrompts' = {}
  /\ config' = defaultConfig
  /\ settingsController' = InitSettings
  /\ lastCallPrompts' = 0
  /\ lastCallConfig' = 0
  /\ sessions' = [n \in SessionIds |->
                    [st |-> "unborn", closeTried |-> FALSE, streaming |-> FALSE,
                     setup |-> FALSE, pushed |-> {}]]
  /\ tasks' = <<[pc |-> "start", ret |-> "fu", s |-> NoSession]>>
  /\ decoding' = <<>>
  /\ timers' = <<>>
  /\ promptSends' = 0
  /\ configSends' = 0
  /\ toasts' = <<>>
  /\ calls' = <<>>
  /\ started' = <<>>
  /\ ev' = [name |-> "gen", from |-> playbackState, s |-> NoSession,
            current |-> TRUE, pressed |-> "none"]
  /\ prevPlaying' = NoBuffer
  /\ uncaught' = FALSE
  /\ UNCHANGED dateNow

\* The connection life cycle: every awaited transport operation may fail and
\* the transport may report errors and closures at any moment; the user
\* plays and pauses between handlers, and each timeline gets its first buffer
\* only.
ConnMessages == {SetupMsg, AudioMsg(<<1>>)}

Next ==
  \/ FirstUpdated
  \/ tasks = <<>> /\ HandlePlayPause
  \/ \E i \in 1..MaxTasks : ResumeDone(i)
  \/ \E i \in 1..MaxTasks, ok \in BOOLEAN : CloseDone(i, ok)
  \/ \E i \in 1..MaxTasks, ok \in BOOLEAN : ConnectDone(i, ok)
  \/ \E i \in 1..MaxTasks, ok \in BOOLEAN : ConfigDone(i, ok)
  \/ \E i \in 1..MaxTasks, ok \in BOOLEAN : InitialConfigDone(i, ok)
  \/ \E ok \in BOOLEAN : PromptSendDone(ok)
  \/ \E s \in SessionIds, m \in ConnMessages :
        /\ m.audioChunks # <<>> => decoding = <<>> /\ nextStartTime = 0
        /\ OnMessage(s, m)
  \/ \E i \in 1..MaxDecoding : DecodeDone(i)
  \/ \E s \in SessionIds : OnError(s)
  \/ \E s \in SessionIds, wasClean \in BOOLEAN : OnClose(s, wasClean)
  \/ \E i \in 1..MaxTimers : TimerFire(i)
  \/ Tick(bufferTime + MaxConnTicks)

Spec == Init /\ [][Next]_vars

\* The connection life cycle with every chunk decoded at once: no callback
\* and no user intent comes between a chunk's arrival and its scheduling.
NextSync ==
  \/ FirstUpdated
  \/ tasks = <<>> /\ HandlePlayPause
  \/ \E i \in 1..MaxTasks : ResumeDone(i)
  \/ \E i \in 1..MaxTasks, ok \in BOOLEAN : CloseDone(i, ok)
  \/ \E i \in 1..MaxTasks, ok \in BOOLEAN : ConnectDone(i, ok)
  \/ \E i \in 1..MaxTasks, ok \in BOOLEAN : ConfigDone(i, ok)
  \/ \E i \in 1..MaxTasks, ok \in BOOLEAN : InitialConfigDone(i, ok)
  \/ \E ok \in BOOLEAN : PromptSendDone(ok)
  \/ \E s \in SessionIds, m \in ConnMessages :
        /\ m.audioChunks # <<>> => nextStartTime = 0
        /\ OnMessageDecoded(s, m)
  \/ \E s \in SessionIds : OnError(s)
  \/ \E s \in SessionIds, wasClean \in BOOLEAN : OnClose(s, wasClean)
  \/ \E i \in 1..MaxTimers : TimerFire(i)
  \/ Tick(bufferTime + MaxConnTicks)

SpecSync == Init /\ [][NextSync]_vars

\* Overlapping handlers: the user acts at any moment, also while an earlier
\* handler is suspended; connects and closes may fail, nothing is streamed.
NextRace ==
  \/ FirstUpdated
  \/ HandlePlayPause
  \/ HandleReset
  \/ \E i \in 1..MaxTasks : ResumeDone(i)
  \/ \E i \in 1..MaxTasks, ok \in BOOLEAN : CloseDone(i, ok)
  \/ \E i \in 1..MaxTasks, ok \in BOOLEAN : ConnectDone(i, ok)
  \/ \E i \in 1..MaxTasks : ConfigDone(i, TRUE)
  \/ \E i \in 1..MaxTasks : InitialConfigDone(i, TRUE)
  \/ \E i \in 1..MaxTasks : ResetContextDone(i, TRUE)
  \/ PromptSendDone(TRUE)
  \/ ConfigSendDone(TRUE)
  \/ \E s \in SessionIds : OnError(s)
  \/ \E i \in 1..MaxTimers : TimerFire(i)

SpecRace == Init /\ [][NextRace]_vars

\* Playback on a healthy connection: every awaited transport operation
\* succeeds and the user acts between handlers; chunks, decodes, timers and
\* the audio clock interleave freely.
PlayMessages == {SetupMsg} \cup {AudioMsg(<<d>>) : d \in Durations} \cup {AudioMsg(<<1, 2>>)}

NextPlay ==
  \/ FirstUpdated
  \/ tasks = <<>> /\ HandlePlayPause
  \/ \E i \in 1..MaxTasks : ResumeDone(i)
  \/ \E i \in 1..MaxTasks : ConnectDone(i, TRUE)
  \/ \E i \in 1..MaxTasks : ConfigDone(i, TRUE)
  \/ \E i \in 1..MaxTasks : InitialConfigDone(i, TRUE)
  \/ PromptSendDone(TRUE)
  \/ \E s \in SessionIds, m \in PlayMessages : OnMessage(s, m)
  \/ \E i \in 1..MaxDecoding : DecodeDone(i)
  \/ \E i \in 1..MaxTimers : TimerFire(i)
  \/ Tick(MaxTime)

SpecPlay == Init /\ [][NextPlay]_vars

\* Playback with the button pressed at any moment, also while the startup
\* connect is still awaited.
NextPause ==
  \/ FirstUpdated
  \/ HandlePlayPause
  \/ \E i \in 1..MaxTasks : ResumeDone(i)
  \/ \E i \in 1..MaxTasks : ConnectDone(i, TRUE)
  \/ \E i \in 1..MaxTasks : ConfigDone(i, TRUE)
  \/ \E i \in 1..MaxTasks : InitialConfigDone(i, TRUE)
  \/ PromptSendDone(TRUE)
  \/ \E s \in SessionIds, m \in ConnMessages :
        /\ m.audioChunks # <<>> => decoding = <<>> /\ nextStartTime = 0
        /\ OnMessage(s, m)
  \/ \E i \in 1..MaxDecoding : DecodeDone(i)
  \/ \E i \in 1..MaxTimers : TimerFire(i)
  \/ Tick(bufferTime)

SpecPause == Init /\ [][NextPause]_vars

\* The control channels on a healthy connection: the user drags weights and
\* changes settings while Date.now() advances; a push may fail.
NextCtl ==
  \/ FirstUpdated
  \/ \E i \in 1..MaxTasks : ConnectDone(i, TRUE)
  \/ \E i \in 1..MaxTasks : ConfigDone(i, TRUE)
  \/ \E i \in 1..MaxTasks : InitialConfigDone(i, TRUE)
  \/ \E id \in DOMAIN prompts, weight \in Weights :
        HandlePromptChanged(id, prompts[id].text, weight)
  \/ \E detail \in Configs : SettingsChanged(detail)
  \/ \E ok \in BOOLEAN : PromptSendDone(ok)
  \/ \E ok \in BOOLEAN : ConfigSendDone(ok)
  \/ AdvanceDate

SpecCtl == Init /\ [][NextCtl]_vars

\* Prompt filtering on a healthy connection: the user edits and removes
\* prompts, the service reports texts it rejects.
NextFilter ==
  \/ FirstUpdated
  \/ \E i \in 1..MaxTasks : ConnectDone(i, TRUE)
  \/ \E i \in 1..MaxTasks : ConfigDone(i, TRUE)
  \/ \E i \in 1..MaxTasks : InitialConfigDone(i, TRUE)
  \/ \E id \in DOMAIN prompts, text \in Texts, weight \in Weights :
        HandlePromptChanged(id, text, weight)
  \/ \E id \in DOMAIN prompts : HandlePromptRemoved(id)
  \/ PromptSendDone(TRUE)
  \/ \E s \in SessionIds : \E text \in Reportable(s) : OnMessage(s, FilteredMsg(text))
  \/ AdvanceDate

SpecFilter == Init /\ [][NextFilter]_vars

\* The prompt set on a healthy connection: the user adds, removes, renames
\* and raises prompts, and loads the page again.
NextPrompts ==
  \/ FirstUpdated
  \/ \E i \in 1..MaxTasks : ConnectDone(i, TRUE)
  \/ \E i \in 1..MaxTasks : ConfigDone(i, TRUE)
  \/ \E i \in 1..MaxTasks : InitialConfigDone(i, TRUE)
  \/ PromptSendDone(TRUE)
  \/ HandleAddPrompt
  \/ \E id \in DOMAIN prompts : HandlePromptRemoved(id)
  \/ \E id \in DOMAIN prompts :
        \/ HandlePromptChanged(id, prompts[id].text, WeightOne)
        \/ HandlePromptChanged(id, <<"birthday">>, prompts[id].weight)
  \/ AdvanceDate
  \/ tasks = <<>> /\ promptSends = 0 /\ Reload

SpecPrompts == Init /\ [][NextPrompts]_vars

\* Moderation over the life of the connection: the service reports rejected
\* texts (of the ideas it was sent) while the user plays, pauses and resets between handlers and the
\* transport reports errors; each timeline gets its first buffer only.
NextMod ==
  \/ FirstUpdated
  \/ tasks = <<>> /\ HandlePlayPause
  \/ tasks = <<>> /\ HandleReset
  \/ \E i \in 1..MaxTasks : ResumeDone(i)
  \/ \E i \in 1..MaxTasks : CloseDone(i, TRUE)
  \/ \E i \in 1..MaxTasks : ConnectDone(i, TRUE)
  \/ \E i \in 1..MaxTasks : ConfigDone(i, TRUE)
  \/ \E i \in 1..MaxTasks : InitialConfigDone(i, TRUE)
  \/ \E i \in 1..MaxTasks : ResetContextDone(i, TRUE)
  \/ PromptSendDone(TRUE)
  \/ ConfigSendDone(TRUE)
  \/ \E s \in SessionIds :
        \E text \in Reportable(s) \ {prompts[id].text : id \in Silent} :
          OnMessage(s, FilteredMsg(text))
  \/ \E s \in SessionIds :
        /\ decoding = <<>> /\ nextStartTime = 0
        /\ OnMessage(s, AudioMsg(<<1>>))
  \/ \E i \in 1..MaxDecoding : DecodeDone(i)
  \/ \E s \in SessionIds : OnError(s)
  \/ \E i \in 1..MaxTimers : TimerFire(i)
  \/ Tick(bufferTime)

SpecMod == Init /\ [][NextMod]_vars

\* The settings controller on a healthy connection: the user checks and
\* un-checks the automatic boxes, moves the sliders and resets.
NextSettings ==
  \/ FirstUpdated
  \/ SettingsFirstUpdated
  \/ \E i \in 1..MaxTasks : ConnectDone(i, TRUE)
  \/ \E i \in 1..MaxTasks : ConfigDone(i, TRUE)
  \/ \E i \in 1..MaxTasks : InitialConfigDone(i, TRUE)
  \/ PromptSendDone(TRUE)
  \/ ConfigSendDone(TRUE)
  \/ \E key \in {"auto-density", "auto-brightness"}, checked \in BOOLEAN :
        HandleInputChange(key, checked)
  \/ \E key \in {"density", "brightness"}, value \in SliderValues :
        HandleInputChange(key, value)
  \/ tasks = <<>> /\ HandleReset
  \/ \E i \in 1..MaxTasks : ResumeDone(i)
  \/ \E i \in 1..MaxTasks : ResetContextDone(i, TRUE)
  \/ \E i \in 1..MaxTimers : TimerFire(i)
  \/ AdvanceDate

SpecSettings == Init /\ [][NextSettings]_vars

\* connectToSession called for its own sake, twice in a row, between the
\* handlers of a session that is healthy, paused by an error, or closed.
NextProbe ==
  \/ FirstUpdated
  \/ tasks = <<>> /\ HandlePlayPause
  \/ tasks = <<>> /\ EnsureConnectedTwice
  \/ \E i \in 1..MaxTasks : ResumeDone(i)
  \/ \E i \in 1..MaxTasks, ok \in BOOLEAN : ProbeDone(i, ok)
  \/ \E i \in 1..MaxTasks : CloseDone(i, TRUE)
  \/ \E i \in 1..MaxTasks, ok \in BOOLEAN : ConnectDone(i, ok)
  \/ \E i \in 1..MaxTasks : ConfigDone(i, TRUE)
  \/ \E i \in 1..MaxTasks : InitialConfigDone(i, TRUE)
  \/ PromptSendDone(TRUE)
  \/ \E s \in SessionIds : OnError(s)

SpecProbe == Init /\ [][NextProbe]_vars

\* ------------------------------------------------------------------ claims
Scheduled == {started[i] : i \in 1..Len(started)}

PromotePending == \E i \in 1..Len(timers) : timers[i].kind = "promote"

\* C1: whenever PlaybackState is paused or stopped, nextStartTime is 0.
C1_HorizonResetWhileIdle ==
  playbackState \in {"paused", "stopped"} => nextStartTime = 0

\* C2: no buffer is handed to source.start at a moment when PlaybackState is
\* paused or stopped.
C2_NoScheduleWhileIdle ==
  \A b \in Scheduled : b.state \notin {"paused", "stopped"}

\* C3: of two buffers scheduled one after the other in an unbroken `playing`
\* period, the second starts exactly where the first ends (and so strictly
\* later), unless an under-run was detected for the second.
C3_Contiguous ==
  \A b \in Scheduled :
    (b.prev # NoBuffer /\ b.state = "playing" /\ ~b.underrun)
      => /\ b.start = b.prev.start + b.prev.duration
         /\ b.start > b.prev.start

C3_Witness ==
  \E b \in Scheduled : b.prev # NoBuffer /\ b.state = "playing" /\ b.prev.duration = 2

\* C4: a buffer scheduled with nextStartTime = T > 0 at device time now > T
\* puts PlaybackState in loading, starts at now + bufferTime (not at T) and
\* leaves nextStartTime = now + bufferTime + its duration.
C4_Underrun ==
  \A b \in Scheduled :
    (b.T > 0 /\ b.now > b.T)
      => /\ playbackState = "loading"
         /\ b.state = "loading"
         /\ b.start = b.now + bufferTime
         /\ b.start # b.T
         /\ nextStartTime = b.now + bufferTime + b.duration

C4_Witness ==
  \E b \in Scheduled : b.T > 0 /\ b.now > b.T /\ ev.from = "playing"

\* C5: after an under-run has forced PlaybackState to loading, the look-ahead
\* promotion is armed again (a promote timer is pending while the state is
\* still the loading the under-run caused), so that the state can become
\* playing again.
C5_UnderrunRearmsPromotion ==
  (playbackState = "loading" /\ \E b \in Scheduled : b.underrun)
    => PromotePending

\* C6: at no time are two connectToSession calls waiting on a connect.
Connecting == {i \in 1..Len(tasks) : tasks[i].pc = "connect"}

C6_OneConnectInFlight == Cardinality(Connecting) <= 1

\* C7: at most one session is live (open, close() not attempted on it), and
\* every open session the engine no longer references has had close()
\* attempted on it.
Live == {s \in SessionIds : sessions[s].st = "open" /\ ~sessions[s].closeTried}

C7_OneLiveSession ==
  /\ Cardinality(Live) <= 1
  /\ \A s \in SessionIds :
       (sessions[s].st = "open" /\ s # session) => sessions[s].closeTried

\* C8: a message, error or close callback of a session that is not the
\* current session changes none of PlaybackState, nextStartTime,
\* connectionError and filteredPrompts, and schedules no buffer.
Callbacks == {"onmessage", "decode", "onerror", "onclose", "oncloseClean"}

C8_StaleCallbackDiscarded ==
  [][(ev'.name \in Callbacks /\ ~ev'.current /\ ev' # ev)
       => /\ UNCHANGED <<playbackState, nextStartTime, connectionError, filteredPrompts>>
          /\ started' = <<>>]_vars

\* C9: in every PlaybackState, an error callback or a close callback
\* reporting an abnormal closure leaves connectionError set, PlaybackState
\* paused, nextStartTime 0, and shows exactly one notice.
C9_ErrorPauses ==
  ev.name \in {"onerror", "onclose"}
    => /\ connectionError
       /\ playbackState = "paused"
       /\ nextStartTime = 0
       /\ Len(toasts) = 1

C9_Witness ==
  /\ ev.name \in {"onerror", "onclose"}
  /\ ev.from = "playing"
  /\ calls = <<>>

\* C10: no inbound message, decode completion, timer or transport callback
\* takes PlaybackState out of paused.
Automatic == Callbacks \cup {"timer"}

C10_PausedUntilUser ==
  (ev.from = "paused" /\ ev.name \in Automatic) => playbackState = "paused"

\* C11: the firing of a look-ahead timer that was armed before PlaybackState
\* entered paused or stopped does not change PlaybackState, also when the
\* state is loading again by then.
C11_StalePromotionSuppressed ==
  (ev.name = "timer" /\ ~ev.current) => playbackState = ev.from

\* a step of the engine (not of a clock), and the pushes among its calls
EngineStep == UNCHANGED <<dateNow, currentTime>>

PromptPushes(cs) == {i \in 1..Len(cs) : cs[i].op = "setWeightedPrompts"}

ConfigPushes(cs) == {i \in 1..Len(cs) : cs[i].op = "setMusicGenerationConfig"}

Healthy == session # NoSession /\ ~connectionError

\* the steps that submit the prompts to the throttled channel
PromptUpdates == {"promptChanged", "promptRemoved", "connect", "config"}

\* C12: of two updates submitted on the prompts channel less than the
\* throttle interval apart at most one is pushed: a step pushes the prompts at
\* most once, only when no update was accepted during the last interval, with
\* the prompts as they are when it is accepted, and only in the step of an
\* update (nothing is delivered later).
C12_ThrottleLossy ==
  [][EngineStep =>
       /\ Cardinality(PromptPushes(calls')) <= 1
       /\ \A i \in PromptPushes(calls') :
            /\ dateNow - lastCallPrompts >= delay
            /\ ev'.name \in PromptUpdates
            /\ calls'[i].arg = promptsToSend(Cur)']_vars

C12_Witness ==
  /\ ev.name = "promptChanged"
  /\ Healthy
  /\ calls = <<>>
  /\ dateNow - lastCallPrompts = DateStep
  /\ promptSends = 0

\* C13: on each channel an update arriving at least the interval after the
\* last accepted one resets that channel's clock and, with a healthy session,
\* is pushed at once; an earlier one changes nothing and leaves nothing
\* pending; an update on one channel leaves the other channel alone.
C13_LeadingEdge ==
  [][EngineStep =>
       /\ ev'.name \in {"promptChanged", "promptRemoved"} =>
            /\ UNCHANGED <<lastCallConfig, configSends>>
            /\ ConfigPushes(calls') = {}
            /\ IF dateNow - lastCallPrompts >= delay
               THEN /\ lastCallPrompts' = dateNow
                    /\ Healthy => /\ PromptPushes(calls') # {}
                                  /\ promptSends' = promptSends + 1
               ELSE /\ calls' = <<>>
                    /\ UNCHANGED <<lastCallPrompts, promptSends>>
       /\ ev'.name = "settingsChanged" =>
            /\ UNCHANGED <<lastCallPrompts, promptSends>>
            /\ PromptPushes(calls') = {}
            /\ IF dateNow - lastCallConfig >= delay
               THEN /\ lastCallConfig' = dateNow
                    /\ Healthy => /\ ConfigPushes(calls') # {}
                                  /\ configSends' = configSends + 1
               ELSE /\ calls' = <<>>
                    /\ UNCHANGED <<lastCallConfig, configSends>>]_vars

C13_Witness ==
  /\ ev.name = "settingsChanged"
  /\ Healthy
  /\ ConfigPushes(calls) # {}
  /\ dateNow - lastCallPrompts = DateStep

\* C14: every setWeightedPrompts push carries exactly the prompts of the
\* prompt set, as it is at that moment, whose weight is above 0.01 and whose
\* text is not in filteredPrompts, each wrapped in the fixed prefix and suffix.
C14_PushIsActiveUnfiltered ==
  \A i \in PromptPushes(calls) :
    calls[i].arg =
      {[promptId |-> id,
        text |-> <<"Music for a 5-year-old: ">> \o prompts[id].text
                   \o <<". Make it simple, happy, and playful.">>,
        weight |-> prompts[id].weight] :
         id \in {j \in DOMAIN prompts : /\ prompts[j].weight > 1
                                       /\ prompts[j].text \notin filteredPrompts}}

C14_Witness ==
  /\ PromptPushes(calls) # {}
  /\ \E id \in DOMAIN prompts :
       prompts[id].weight > WeightThreshold /\ prompts[id].text \in filteredPrompts
  /\ \E id \in DOMAIN prompts : prompts[id].weight = WeightThreshold

\* C15: a text the service has reported as filtered is in no later
\* setWeightedPrompts push while it is in filteredPrompts.
C15_RejectedStaysOut ==
  \A i \in PromptPushes(calls) :
    \A p \in calls[i].arg : p.text \notin filteredPrompts

\* C16: a push that fails, on the prompts channel or on the config channel,
\* shows a notice and leaves PlaybackState paused with nextStartTime 0.
C16_SendFailurePauses ==
  ev.name \in {"promptSendFailed", "configSendFailed"}
    => /\ toasts # <<>>
       /\ playbackState = "paused"
       /\ nextStartTime = 0

\* C17: when play was pressed in stopped with no healthy session and the
\* connect succeeds, PlaybackState is still stopped when the prompts and the
\* config are pushed to the new session.
C17_ResendBeforeLeavingStopped ==
  (ev.name = "connect" /\ ev.pressed = "stopped"
    /\ PromptPushes(calls) \cup ConfigPushes(calls) # {})
    => ev.from = "stopped"

\* C18: the step in which a connect resolves into a new session pushes the
\* prompts once and the config once to that session.
C18_ResyncOnOpen ==
  ev.name = "connect"
    => /\ Cardinality({i \in PromptPushes(calls) : calls[i].s = session}) = 1
       /\ Cardinality({i \in ConfigPushes(calls) : calls[i].s = session}) = 1

\* C20: when play was pressed in stopped or paused with no healthy session
\* and the connect fails, PlaybackState is what it was at the press and
\* session.play() is not called.
C20_FailedReconnectKeepsState ==
  (ev.name = "connectFailed" /\ ev.pressed \in {"stopped", "paused"})
    => /\ playbackState = ev.pressed
       /\ \A i \in 1..Len(calls) : calls[i].op # "play"

\* C19: of two calls of connectToSession in a row on a session believed
\* healthy, the first one's successful probe is the only one: when it
\* succeeds no further probe is sent, nothing is closed or connected, and
\* the session handle and PlaybackState are as before.
C19_IdempotentConnect ==
  ev.name = "probe"
    => /\ calls = <<>>
       /\ playbackState = ev.from
       /\ Healthy

\* C21: the chunks of one session are scheduled in the order they arrived:
\* the chunk a decode completion schedules is the earliest chunk of its
\* session still awaiting its decode.
C21_ArrivalOrder ==
  [][(EngineStep /\ ev'.name = "decode")
       => \E i \in 1..Len(decoding) :
            /\ decoding' = RemoveAt(decoding, i)
            /\ \A j \in 1..(i - 1) : decoding[j].sess # decoding[i].sess]_vars

\* C22: when the startup of the element has run to its end and the user
\* has pressed nothing, PlaybackState is still stopped.
C22_StartupLeavesStopped ==
  (ev.name = "initialConfig" /\ ev.pressed = "none" /\ ~uncaught)
    => playbackState = "stopped"

\* C25: no failure of a transport operation ends as an uncaught exception or
\* an unhandled rejection.
C25_NothingUncaught == ~uncaught

\* a filtered-prompt signal has been handled by the step just taken
FilteredSignal == ev'.name = "onmessage" /\ toasts' # <<>>

\* C23: FilteredSet only grows, except in handleReset's step after its
\* awaited resetContext, which empties it; reconnects, pause, play and
\* errors leave it as it was.
C23_FilteredGrows ==
  [][filteredPrompts \subseteq filteredPrompts' \/ ev'.name = "resetContext"]_vars

C23_Witness ==
  /\ filteredPrompts # {}
  /\ ev.name \in {"connect", "onerror", "handlePlayPause"}
  /\ session = MaxSessions

\* C24: handling a filtered-prompt signal inserts the reported text into
\* FilteredSet and shows one notice; PlaybackState, nextStartTime, the session
\* handle and the connection-health flag are as before, and nothing is asked
\* of the session.
C24_FilteredSignalFrame ==
  [][(EngineStep /\ FilteredSignal)
       => /\ UNCHANGED <<playbackState, nextStartTime, session, connectionError,
                         sessions, tasks, timers, decoding>>
          /\ \E text \in Reportable(ev'.s) : filteredPrompts' = filteredPrompts \cup {text}
          /\ Len(toasts') = 1
          /\ calls' = <<>>]_vars

C24_Witness ==
  /\ ev.name = "onmessage" /\ toasts # <<>>
  /\ playbackState = "playing"
  /\ filteredPrompts # {}

\* C29: a buffer scheduled while nextStartTime is 0 starts at now + bufferTime,
\* leaves nextStartTime at now + bufferTime + its duration and arms exactly one
\* look-ahead timer; a buffer scheduled while nextStartTime is not 0 arms none.
C29_FirstBuffer ==
  [][(EngineStep /\ ev'.name = "decode" /\ started' # <<>>)
       => LET b == started'[1]
          IN IF nextStartTime = 0
             THEN /\ b.start = currentTime + bufferTime
                  /\ nextStartTime' = currentTime + bufferTime + b.duration
                  /\ timers' = Append(timers, [kind |-> "promote",
                                               due |-> currentTime + bufferTime,
                                               stale |-> FALSE])
             ELSE timers' = timers]_vars

C29_Witness ==
  /\ ev.name = "decode"
  /\ \E b \in Scheduled : b.first /\ b.now > 0 /\ nextStartTime = b.now + bufferTime + b.duration
  /\ PromotePending

\* C26: while there is no audio output context, a press of play/pause or of
\* reset only shows notices: PlaybackState, nextStartTime, FilteredSet and the
\* session handle are as before, nothing is asked of the transport and no
\* handler is left suspended.
C26_NoContextNoOp ==
  [][(EngineStep /\ ev'.name \in {"handlePlayPause", "handleReset"}
        /\ audioContext = "none")
       => /\ UNCHANGED <<playbackState, nextStartTime, filteredPrompts, session,
                         connectionError, sessions, tasks, timers>>
          /\ calls' = <<>>
          /\ toasts' # <<>>]_vars

C26_Witness ==
  /\ audioContext = "none"
  /\ ev.name = "handleReset"
  /\ toasts = <<"Cannot reset: Audio system not ready.">>

\* a press of play in stopped or paused, with the audio context running and a
\* session that is present and believed healthy
PlayOnHealthy ==
  /\ EngineStep /\ ev'.name = "handlePlayPause"
  /\ playbackState \in {"stopped", "paused"}
  /\ audioContext = "running" /\ Healthy

\* C30 (as stated): a press of play in stopped or paused with a session
\* believed healthy asks that session to play and sets PlaybackState to
\* loading; the session is neither closed nor replaced.
C30_PlayAlwaysLoads ==
  [][PlayOnHealthy
       => /\ calls' = <<[op |-> "play", s |-> session]>>
          /\ playbackState' = "loading"
          /\ session' = session
          /\ sessions'[session].st = sessions[session].st
          /\ tasks' = tasks]_vars

\* C30 (amended): such a press asks the session to play, and neither closes
\* nor replaces it; PlaybackState becomes loading when the session accepts
\* the call, and paused, with a notice, when session.play() throws.
C30_PlayOnHealthySession ==
  [][PlayOnHealthy
       => /\ calls' = <<[op |-> "play", s |-> session]>>
          /\ session' = session
          /\ sessions'[session].st = sessions[session].st
          /\ tasks' = tasks
          /\ IF playThrows(Cur)
             THEN playbackState' = "paused" /\ toasts' = <<"Couldn't play">>
             ELSE playbackState' = "loading" /\ toasts' = <<>>]_vars

C30_Witness ==
  /\ ev.name = "handlePlayPause" /\ ev.from = "paused"
  /\ playbackState = "loading"
  /\ calls = <<[op |-> "play", s |-> session]>>

\* the pushes of setWeightedPrompts a step made
AddedPushes == {calls'[i] : i \in {j \in 1..Len(calls') : calls'[j].op = "setWeightedPrompts"}}

\* C27: adding a prompt pushes nothing and leaves the throttle alone; when a
\* prompt of weight 0 is then raised to weight 1 on a healthy session and the
\* throttle accepts the update, exactly one setWeightedPrompts push is made,
\* it carries that prompt with its wrapped text, and it carries no other
\* prompt when every other prompt has a weight of at most the threshold.
C27_AddThenRaise ==
  [][/\ (EngineStep /\ ev'.name = "promptAdded")
        => /\ calls' = <<>>
           /\ UNCHANGED <<promptSends, lastCallPrompts, sessions>>
     /\ \A id \in DOMAIN prompts :
          (/\ EngineStep /\ ev'.name = "promptChanged"
           /\ id \in DOMAIN prompts'
           /\ prompts[id].weight = 0 /\ prompts'[id].weight = WeightOne
           /\ prompts'[id].text \notin filteredPrompts
           /\ Healthy /\ throttle(lastCallPrompts))
          => /\ Len(calls') = 1
             /\ \E c \in AddedPushes :
                  /\ [promptId |-> id, text |-> Wrap(prompts'[id].text),
                      weight |-> WeightOne] \in c.arg
                  /\ (\A o \in DOMAIN prompts' \ {id} :
                        prompts'[o].weight <= WeightThreshold)
                     => Cardinality(c.arg) = 1]_vars

C27_Witness ==
  /\ ev.name = "promptChanged"
  /\ \E id \in DOMAIN prompts \ DOMAIN InitPrompts :
       /\ prompts[id].text = NewPromptText
       /\ Len(calls) = 1
       /\ calls[1].op = "setWeightedPrompts"
       /\ calls[1].arg = {[promptId |-> id, text |-> Wrap(NewPromptText),
                           weight |-> WeightOne]}

\* C28: a prompt that is added gets an id no prompt of the set has: the set
\* has one prompt more after the addition.
C28_FreshPromptId ==
  [][(EngineStep /\ ev'.name = "promptAdded" /\ nextPromptId' # nextPromptId)
       => /\ PromptId(nextPromptId) \notin DOMAIN prompts
          /\ Cardinality(DOMAIN prompts') = Cardinality(DOMAIN prompts) + 1]_vars

\* C31: a press of play/pause in playing or loading sets PlaybackState to
\* paused and nextStartTime to 0, and asks the session to pause exactly when
\* a session exists and the connection is believed healthy.
C31_UserPause ==
  [][(EngineStep /\ ev'.name = "handlePlayPause" /\ audioContext = "running"
        /\ playbackState \in {"playing", "loading"})
       => /\ playbackState' = "paused"
          /\ nextStartTime' = 0
          /\ calls' = IF Healthy THEN <<[op |-> "pause", s |-> session]>> ELSE <<>>
          /\ UNCHANGED <<session, connectionError>>]_vars

C31_Witness ==
  /\ ev.name = "handlePlayPause" /\ ev.from = "playing"
  /\ playbackState = "paused" /\ nextStartTime = 0
  /\ calls = <<[op |-> "pause", s |-> session]>>

\* C32: when the close of the existing session settles during a reconnect,
\* failed or not, no notice is shown, the connect is issued, and
\* PlaybackState is the `loading` of the connect.
C32_CloseBestEffort ==
  [][(EngineStep /\ ev'.name = "close")
       => /\ toasts' = <<>>
          /\ calls' = <<[op |-> "connect", s |-> NoSession]>>
          /\ playbackState' = "loading"
          /\ \E i \in 1..Len(tasks) :
               /\ tasks[i].pc = "close"
               /\ tasks' = [tasks EXCEPT ![i] = [pc |-> "connect", ret |-> tasks[i].ret,
                                                 s |-> NoSession]]
          /\ UNCHANGED <<session, connectionError, nextStartTime, filteredPrompts>>]_vars

\* the close of session s was tried and failed: the session is still open
CloseFailed(s) == sessions[s].closeTried /\ sessions[s].st = "open"

C32_Witness ==
  /\ ev.name = "close"
  /\ session # NoSession /\ CloseFailed(session)
  /\ calls = <<[op |-> "connect", s |-> NoSession]>>

\* C34: every buffer handed to source.start starts no earlier than the
\* device clock's time at the call.
C34_NeverInThePast == \A b \in Scheduled : b.start >= b.now

C34_Witness == \E b \in Scheduled : b.underrun /\ b.start = b.now + bufferTime /\ b.now > 0

\* C35: whenever PlaybackState is playing, a session exists and the
\* connection is believed healthy.
C35_PlayingIsConnected == playbackState = "playing" => Healthy

\* C37: a close callback reporting a clean closure leaves PlaybackState,
\* nextStartTime, the connection-health flag and the session handle as they
\* were and shows no notice; a press of play that follows it on a session
\* believed healthy opens no connection.
C37_CleanCloseFrame ==
  [][/\ (EngineStep /\ ev'.name = "oncloseClean")
        => /\ UNCHANGED <<playbackState, nextStartTime, connectionError, session,
                          filteredPrompts, tasks, timers, decoding>>
           /\ toasts' = <<>>
           /\ calls' = <<>>
     /\ (EngineStep /\ ev.name = "oncloseClean" /\ ev'.name = "handlePlayPause"
         /\ Healthy)
        => /\ \A i \in 1..Len(calls') : calls'[i].op \notin {"connect", "close"}
           /\ \A i \in 1..Len(tasks') : tasks'[i].pc \notin {"connect", "close", "probe"}
           /\ session' = session]_vars

C37_Witness ==
  /\ ev.name = "handlePlayPause" /\ ev.from \in {"paused", "stopped"}
  /\ Healthy /\ sessions[session] = Closed
  /\ tasks = <<>>

\* C38: when handleReset has run to its end, FilteredSet is empty,
\* PlaybackState is paused and nextStartTime is 0.
C38_ResetOutcome ==
  ev.name = "resetContext"
    => filteredPrompts = {} /\ playbackState = "paused" /\ nextStartTime = 0

\* the config push of updateSettings the last step made, if any
Dispatched == {calls[i].arg : i \in {j \in 1..Len(calls) :
                                      /\ calls[j].op = "setMusicGenerationConfig"
                                      /\ ev.name = "settingsChanged"}}

\* density is absent from the config exactly when autoDensity is true, and
\* brightness exactly when autoBrightness is true
AutoIsAbsent ==
  /\ (config.density = "auto") <=> settingsController.autoDensity
  /\ (config.brightness = "auto") <=> settingsController.autoBrightness
  /\ \A detail \in Dispatched : detail = config

\* C33: after any sequence of operations of the settings controller the
\* config (and what is dispatched) has density absent exactly when autoDensity
\* is true and brightness absent exactly when autoBrightness is true;
\* un-checking automatic pins the field to the last value defined, which is
\* 0.5 at the start and after a reset and otherwise the position the user
\* last moved the slider to.
C33_AutoVersusPinned ==
  [][/\ AutoIsAbsent /\ AutoIsAbsent'
     /\ (settingsController.autoDensity /\ ~settingsController'.autoDensity)
          => config'.density = settingsController.lastDefinedDensity
     /\ (settingsController.autoBrightness /\ ~settingsController'.autoBrightness)
          => config'.brightness = settingsController.lastDefinedBrightness
     /\ settingsController'.lastDefinedDensity # settingsController.lastDefinedDensity
          => \/ ev'.name = "resetContext" /\ settingsController'.lastDefinedDensity = "half"
             \/ /\ ev'.name = "settingsChanged" /\ ~settingsController.autoDensity
                /\ config'.density = settingsController'.lastDefinedDensity
     /\ settingsController'.lastDefinedBrightness # settingsController.lastDefinedBrightness
          => \/ ev'.name = "resetContext" /\ settingsController'.lastDefinedBrightness = "half"
             \/ /\ ev'.name = "settingsChanged" /\ ~settingsController.autoBrightness
                /\ config'.brightness = settingsController'.lastDefinedBrightness]_vars

C33_Witness ==
  /\ ev.name = "settingsChanged"
  /\ ~settingsController.autoDensity /\ config.density = "full"
  /\ settingsController.autoBrightness /\ config.brightness = "auto"
  /\ settingsController.lastDefinedBrightness = "full"
  /\ Dispatched = {config}

\* C36: an audio message that arrives while PlaybackState is loading or
\* playing leaves one chunk to decode, the first of the message, whatever the
\* number of its chunks; the decode's completion schedules exactly one
\* buffer, of that chunk's duration, and leaves nextStartTime at the buffer's
\* start plus its duration.
C36_OneBufferPerMessage ==
  [][/\ \A s \in SessionIds, m \in PlayMessages :
          (m.audioChunks # <<>> /\ playbackState \in {"loading", "playing"}
           /\ audioContext # "none")
          => onmessage(Cur, s, m) =
               [Cur EXCEPT !.decoding =
                  Append(@, [sess |-> s, duration |-> Head(m.audioChunks)])]
     /\ (EngineStep /\ ev'.name = "decode")
          => \E i \in 1..Len(decoding) :
               /\ decoding' = RemoveAt(decoding, i)
               /\ Len(started') = 1
               /\ started'[1].duration = decoding[i].duration
               /\ started'[1].sess = decoding[i].sess
               /\ nextStartTime' = started'[1].start + decoding[i].duration
               /\ (nextStartTime # 0 /\ nextStartTime >= currentTime)
                    => started'[1].start = nextStartTime]_vars

C36_Witness ==
  /\ ev.name = "decode" /\ playbackState = "playing"
  /\ Len(started) = 1
  /\ ~started[1].first /\ ~started[1].underrun
  /\ started[1].duration = 1
  /\ nextStartTime = started[1].start + 1

====
